---- MODULE Spec2Model ----
(***************************************************************************)
(* Model of the proxima front end: the Lexer (lexer.rs), the location      *)
(* model (location.rs), the token vocabulary (token.rs), the token-buffer  *)
(* primitives of the Parser (parser.rs) and the symbol interner            *)
(* (interner.rs).                                                          *)
(*                                                                         *)
(* A codepoint is a string: a printable ASCII character stands for itself, *)
(* every other codepoint is written "U+XXXX".  A source text is a sequence *)
(* of codepoints; byte offsets are computed from the UTF-8 lengths.        *)
(***************************************************************************)
EXTENDS Integers, Sequences, FiniteSets, TLC

VARIABLES lexer, tokens, result, scan, consumed,
          parser, presult,
          interners, handles, resolved, threads, locks

vars == <<lexer, tokens, result, scan, consumed, parser, presult,
          interners, handles, resolved, threads, locks>>

lexerVars == <<lexer, tokens, result, scan, consumed>>
parserVars == <<parser, presult>>
internerVars == <<interners, handles, resolved, threads, locks>>

(* Longest source text, in codepoints. *)
MaxLen == 4

(* Option<char>::None *)
None == "None"

(***************************************************************************)
(* Codepoints                                                              *)
(***************************************************************************)

(* Scalar values of the codepoints that are not written as themselves. *)
CodePoints ==
    ("U+000B" :> 11) @@ ("U+0085" :> 133) @@ ("U+00E9" :> 233) @@
    ("U+200E" :> 8206) @@ ("U+200F" :> 8207) @@ ("U+2028" :> 8232) @@
    ("U+2029" :> 8233) @@ ("U+20AC" :> 8364) @@ ("U+1F600" :> 128512)

(* The length of a codepoint in UTF-16 code units *)
LenUtf16(c) ==
    IF c \notin DOMAIN CodePoints THEN 1
    ELSE IF CodePoints[c] < 65536 THEN 1
    ELSE 2

(* char::len_utf8 *)
LenUtf8(c) ==
    IF c \notin DOMAIN CodePoints THEN 1
    ELSE IF CodePoints[c] < 128 THEN 1
    ELSE IF CodePoints[c] < 2048 THEN 2
    ELSE IF CodePoints[c] < 65536 THEN 3
    ELSE 4

(* CharExt::is_whitespace *)
Whitespace ==
    {"\t", "\n", "U+000B", "\f", "\r", " ", "U+0085",
     "U+200E", "U+200F", "U+2028", "U+2029"}

AsciiLetters ==
    {"a", "b", "c", "d", "e", "f", "g", "h", "i", "j", "k", "l", "m",
     "n", "o", "p", "q", "r", "s", "t", "u", "v", "w", "x", "y", "z",
     "A", "B", "C", "D", "E", "F", "G", "H", "I", "J", "K", "L", "M",
     "N", "O", "P", "Q", "R", "S", "T", "U", "V", "W", "X", "Y", "Z"}

AsciiDigits == {"0", "1", "2", "3", "4", "5", "6", "7", "8", "9"}

(* UnicodeXID::is_xid_start, on the codepoints of the model *)
XidStart == AsciiLetters \cup {"U+00E9"}

(* UnicodeXID::is_xid_continue, on the codepoints of the model *)
XidContinue == AsciiLetters \cup AsciiDigits \cup {"_", "U+00E9"}

(* CharExt::is_id_start *)
IdStart == XidStart \cup {"_"}

(* CharExt::is_id_continue *)
IdContinue == XidContinue

(* The codepoints source texts are drawn from. *)
Alphabet ==
    {"\n", "i", "f", "U+00E9", ">", "=", "%", "U+20AC", "U+1F600"}

Sources == UNION {[1..n -> Alphabet] : n \in 0..MaxLen}

(* The source texts of the scenarios: `while true { break }`, `1 +` and an  *)
(* unterminated string literal.                                             *)
WhileSource ==
    <<"w", "h", "i", "l", "e", " ", "t", "r", "u", "e", " ", "{", " ",
      "b", "r", "e", "a", "k", " ", "}">>

OnePlusSource == <<"1", " ", "+">>

UnterminatedSource == <<"\"", "a", "b", "c">>

Scenarios == {WhileSource, OnePlusSource, UnterminatedSource}

(***************************************************************************)
(* Token vocabulary                                                        *)
(***************************************************************************)

(* keywords! table: the lexeme (stringify!) of every Keyword variant; the    *)
(* variant Keyword::X is written KwX.                                       *)
KeywordLexeme ==
    [KwStruct |-> <<"s","t","r","u","c","t">>,
     KwThrow |-> <<"t","h","r","o","w">>,
     KwForeach |-> <<"f","o","r","e","a","c","h">>,
     KwEnum |-> <<"e","n","u","m">>,
     KwPrint |-> <<"p","r","i","n","t">>,
     KwPrintln |-> <<"p","r","i","n","t","l","n">>,
     KwIf |-> <<"i","f">>,
     KwElse |-> <<"e","l","s","e">>,
     KwWhile |-> <<"w","h","i","l","e">>,
     KwFor |-> <<"f","o","r">>,
     KwBreak |-> <<"b","r","e","a","k">>,
     KwContinue |-> <<"c","o","n","t","i","n","u","e">>,
     KwFunc |-> <<"f","u","n","c">>,
     KwReturn |-> <<"r","e","t","u","r","n">>,
     KwUsing |-> <<"u","s","i","n","g">>,
     KwSwitch |-> <<"s","w","i","t","c","h">>,
     KwCase |-> <<"c","a","s","e">>,
     KwInclude |-> <<"i","n","c","l","u","d","e">>,
     KwClass |-> <<"c","l","a","s","s">>,
     KwNew |-> <<"n","e","w">>]

(* Keyword::from with the arm of `if` left out of the match *)
KeywordFromWithoutIf(s) ==
    IF \E kw \in DOMAIN KeywordLexeme \ {"KwIf"} : KeywordLexeme[kw] = s
    THEN CHOOSE kw \in DOMAIN KeywordLexeme \ {"KwIf"} : KeywordLexeme[kw] = s
    ELSE None

(* Keyword::from: Some(kw) when s is the lexeme of kw, None otherwise *)
KeywordFrom(s) ==
    IF \E kw \in DOMAIN KeywordLexeme : KeywordLexeme[kw] = s
    THEN CHOOSE kw \in DOMAIN KeywordLexeme : KeywordLexeme[kw] = s
    ELSE None

(* RawToken constructors *)
Punctuator(p) == [kind |-> "Punctuator", arg |-> p]
Keyword(kw) == [kind |-> "Keyword", arg |-> kw]
Error(e) == [kind |-> "Error", arg |-> e]
Identifier == [kind |-> "Identifier", arg |-> None]
EndOfFile == [kind |-> "EndOfFile", arg |-> None]
Number == [kind |-> "Number", arg |-> None]

(* Token::new *)
Token(raw, location) == [raw |-> raw, location |-> location]

(***************************************************************************)
(* Locations                                                               *)
(***************************************************************************)

(* CharLocation::new *)
CharLocation(line, column, offset) ==
    [line |-> line, column |-> column, offset |-> offset]

(* CharLocation::next_byte_location *)
NextByteLocation(l) == CharLocation(l.line, l.column + 1, l.offset + 1)

(* Location::new *)
SpanLocation(start, end) == [start |-> start, end |-> end]

(* CharLocation::of_first_byte *)
CharOfFirstByte == CharLocation(1, 0, 0)

(* Location::of_first_byte *)
OfFirstByte == SpanLocation(CharOfFirstByte, NextByteLocation(CharOfFirstByte))

(***************************************************************************)
(* Source texts as UTF-8 byte strings                                      *)
(***************************************************************************)

(* Byte offset of the end of the first i codepoints of src. *)
RECURSIVE ByteOffset(_, _)
ByteOffset(src, i) ==
    IF i = 0 THEN 0 ELSE ByteOffset(src, i - 1) + LenUtf8(src[i])

(* str::len *)
ByteLen(src) == ByteOffset(src, Len(src))

(* str::is_char_boundary *)
IsCharBoundary(src, b) == \E i \in 0..Len(src) : ByteOffset(src, i) = b

(* &source[from..to]: the slice is taken only when from <= to, to <= len    *)
(* and both ends are codepoint boundaries; otherwise the index panics.      *)
SliceOk(src, from, to) ==
    /\ from <= to
    /\ IsCharBoundary(src, from)
    /\ IsCharBoundary(src, to)

Slice(src, from, to) ==
    LET i == CHOOSE k \in 0..Len(src) : ByteOffset(src, k) = from
        j == CHOOSE k \in 0..Len(src) : ByteOffset(src, k) = to
    IN SubSeq(src, i + 1, j)

(***************************************************************************)
(* Lexer                                                                   *)
(***************************************************************************)

(* Chars::next on the iterator stored in the field chars, which has yielded *)
(* lx.chars codepoints of the source so far.                                *)
CharsItem(lx) ==
    IF lx.chars < Len(lx.source) THEN lx.source[lx.chars + 1] ELSE None

CharsAfter(lx) ==
    IF lx.chars < Len(lx.source) THEN lx.chars + 1 ELSE lx.chars

(* Lexer::new: current and next are read from a local iterator, and the     *)
(* field chars is a fresh source.chars() that has yielded nothing.          *)
LexerNew(source) ==
    [source |-> source,
     chars |-> 0,
     location |-> CharLocation(1, 0, 0),
     current |-> IF Len(source) >= 1 THEN source[1] ELSE None,
     next |-> IF Len(source) >= 2 THEN source[2] ELSE None]

(* Lexer::is_eof *)
IsEof(lx) == lx.current = None

(* Lexer::advance that counts every codepoint as one byte *)
AdvanceOneByte(lx) ==
    LET off == lx.location.offset + (IF lx.current # None THEN 1 ELSE 0)
        loc == IF lx.current = "\n"
               THEN CharLocation(lx.location.line + 1, 0, off)
               ELSE CharLocation(lx.location.line, lx.location.column + 1, off)
    IN [lx EXCEPT !.location = loc,
                  !.current = lx.next,
                  !.next = CharsItem(lx),
                  !.chars = CharsAfter(lx)]

(* Lexer::advance that never sets the offset *)
AdvanceKeepsOffset(lx) ==
    LET off == lx.location.offset
        loc == IF lx.current = "\n"
               THEN CharLocation(lx.location.line + 1, 0, off)
               ELSE CharLocation(lx.location.line, lx.location.column + 1, off)
    IN [lx EXCEPT !.location = loc,
                  !.current = lx.next,
                  !.next = CharsItem(lx),
                  !.chars = CharsAfter(lx)]

(* Lexer::advance *)
Advance(lx) ==
    LET off == lx.location.offset
                 + (IF lx.current # None THEN LenUtf8(lx.current) ELSE 0)
        loc == IF lx.current = "\n"
               THEN CharLocation(lx.location.line + 1, 0, off)
               ELSE CharLocation(lx.location.line, lx.location.column + 1, off)
    IN [lx EXCEPT !.location = loc,
                  !.current = lx.next,
                  !.next = CharsItem(lx),
                  !.chars = CharsAfter(lx)]

(* Lexer::advance_twice *)
AdvanceTwice(lx) == Advance(Advance(lx))

(* Lexer::current_byte_location *)
CurrentByteLocation(lx) ==
    SpanLocation(lx.location, NextByteLocation(lx.location))

(* Lexer::location_from *)
LocationFrom(lx, start_location) == SpanLocation(start_location, lx.location)

(* The loop of Lexer::advance_while; f(current, next) is current \in F for  *)
(* both closures the lexer passes.                                          *)
RECURSIVE AdvanceLoop(_, _)
AdvanceLoop(lx, F) ==
    IF lx.current \in F /\ ~IsEof(lx) THEN AdvanceLoop(Advance(lx), F) ELSE lx

(* The codepoints the loop of advance_while moves past. *)
RECURSIVE LoopChars(_, _)
LoopChars(lx, F) ==
    IF lx.current \in F /\ ~IsEof(lx)
    THEN <<lx.current>> \o LoopChars(Advance(lx), F)
    ELSE <<>>

(* Lexer::advance_while: the lexer after the loop, whether the final slice  *)
(* source[start_location.offset..location.offset] panics, and the slice.    *)
AdvanceWhile(lx, start_location, F) ==
    LET after == AdvanceLoop(lx, F)
        ok == SliceOk(lx.source, start_location.offset, after.location.offset)
    IN [lx |-> after,
        ok |-> ok,
        text |-> IF ok THEN Slice(lx.source, start_location.offset,
                                  after.location.offset)
                 ELSE <<>>]

(* Lexer::skip_whitespaces *)
SkipWhitespaces(lx) == AdvanceWhile(lx, lx.location, Whitespace)

(* The two-codepoint arms of the match in Lexer::next: the punctuator and   *)
(* the number of advance calls the arm makes (advance_twice_with: 2,        *)
(* advance_with: 1).                                                        *)
Arm(p, n) == [punctuator |-> p, advances |-> n]

TwoCharArms ==
    (<<"+", "+">> :> Arm("DoublePlus", 2)) @@
    (<<"+", "=">> :> Arm("PlusEq", 2)) @@
    (<<"-", ">">> :> Arm("Arrow", 2)) @@
    (<<"-", "-">> :> Arm("DoubleMinus", 2)) @@
    (<<"-", "=">> :> Arm("MinusEq", 2)) @@
    (<<"*", "*">> :> Arm("DoubleAsterisk", 2)) @@
    (<<"*", "=">> :> Arm("AsteriskEq", 2)) @@
    (<<"/", "=">> :> Arm("SlashEq", 2)) @@
    (<<"!", "=">> :> Arm("BangEq", 2)) @@
    (<<">", ">">> :> Arm("RightShift", 2)) @@
    (<<">", "=">> :> Arm("GreaterEq", 2)) @@
    (<<"<", "<">> :> Arm("LeftShift", 2)) @@
    (<<"<", "=">> :> Arm("LessEq", 2)) @@
    (<<"=", "=">> :> Arm("DoubleEq", 2)) @@
    (<<"|", "=">> :> Arm("BarEq", 2)) @@
    (<<"|", "|">> :> Arm("DoubleBar", 2)) @@
    (<<"?", "?">> :> Arm("DoubleQuestion", 2)) @@
    (<<"?", ":">> :> Arm("QuestionColon", 2)) @@
    (<<"&", "&">> :> Arm("DoubleAmpersand", 2)) @@
    (<<"^", "=">> :> Arm("CaretEq", 2)) @@
    (<<"%", "=">> :> Arm("PercentEq", 1)) @@
    (<<".", ".">> :> Arm("DoubleDot", 2))

(* The arms (Some(c), _) of the match in Lexer::next; each of them follows  *)
(* the two-codepoint arms that start with the same codepoint.               *)
OneCharArms ==
    (":" :> Arm("Colon", 1)) @@ ("@" :> Arm("At", 1)) @@
    ("+" :> Arm("Plus", 1)) @@ ("-" :> Arm("Minus", 1)) @@
    ("*" :> Arm("Asterisk", 1)) @@ ("/" :> Arm("Slash", 1)) @@
    ("!" :> Arm("Bang", 1)) @@ (">" :> Arm("Greater", 1)) @@
    ("<" :> Arm("Less", 1)) @@ ("=" :> Arm("Eq", 1)) @@
    ("|" :> Arm("Bar", 1)) @@ ("?" :> Arm("Question", 1)) @@
    ("&" :> Arm("Ampersand", 1)) @@ ("^" :> Arm("Caret", 1)) @@
    ("~" :> Arm("Tilde", 1)) @@ ("(" :> Arm("OpenParent", 1)) @@
    (")" :> Arm("CloseParent", 1)) @@ ("[" :> Arm("OpenBracket", 1)) @@
    ("]" :> Arm("CloseBracket", 1)) @@ ("{" :> Arm("OpenBrace", 1)) @@
    ("}" :> Arm("CloseBrace", 1)) @@ ("," :> Arm("Comma", 1)) @@
    (";" :> Arm("Semicolon", 1)) @@ ("%" :> Arm("Percent", 1))

(* The first punctuator arm of the match that (current, next) selects. *)
HasPunctuatorArm(current, next) ==
    <<current, next>> \in DOMAIN TwoCharArms \/ current \in DOMAIN OneCharArms

PunctuatorArm(current, next) ==
    IF <<current, next>> \in DOMAIN TwoCharArms
    THEN TwoCharArms[<<current, next>>]
    ELSE OneCharArms[current]

(* The outcome of one call of a lexer method that may panic: the lexer      *)
(* afterwards, "Some" with the token, "None", or "Panic"; chars are the     *)
(* codepoints the call advanced past.                                       *)
Outcome(lx, outcome, token, chars) ==
    [lx |-> lx, outcome |-> outcome, token |-> token, chars |-> chars]

(* Lexer::advance_with and Lexer::advance_twice_with *)
AdvanceWith(lx, raw, n) ==
    Outcome(IF n = 2 THEN AdvanceTwice(lx) ELSE Advance(lx),
            "Some",
            Token(raw, CurrentByteLocation(lx)),
            IF n = 2 THEN <<lx.current, lx.next>> ELSE <<lx.current>>)

(* Lexer::next_identifier_or_keyword *)
NextIdentifierOrKeyword(lx) ==
    LET start_location == lx.location
        candidate == AdvanceWhile(lx, start_location, IdContinue)
        after == candidate.lx
        chars == LoopChars(lx, IdContinue)
    IN IF ~candidate.ok THEN Outcome(after, "Panic", None, chars)
       ELSE IF KeywordFrom(candidate.text) # None
       THEN Outcome(after, "Some",
                    Token(Keyword(KeywordFrom(candidate.text)),
                          LocationFrom(after, start_location)), chars)
       ELSE Outcome(after, "Some",
                    Token(Identifier, LocationFrom(after, start_location)),
                    chars)

(* The match of Lexer::next, entered after the whitespace is skipped and    *)
(* the lexer is not at the end of the input.                                *)
Dispatch(lx) ==
    IF HasPunctuatorArm(lx.current, lx.next)
    THEN LET arm == PunctuatorArm(lx.current, lx.next)
         IN AdvanceWith(lx, Punctuator(arm.punctuator), arm.advances)
    ELSE IF lx.current \in IdStart
    THEN NextIdentifierOrKeyword(lx)
    ELSE AdvanceWith(lx, Error("UnexpectedChar"), 1)

(* <Lexer as Iterator>::next *)
LexerNext(lx) ==
    LET ws == SkipWhitespaces(lx)
    IN IF ~ws.ok THEN Outcome(ws.lx, "Panic", None, <<>>)
       ELSE IF IsEof(ws.lx) THEN Outcome(ws.lx, "None", None, <<>>)
       ELSE Dispatch(ws.lx)

(***************************************************************************)
(* Scanning a source text: one step is one call of next.                   *)
(*   tokens    the tokens returned so far                                  *)
(*   result    what the last call did: "Start" before the first call,      *)
(*             "Some", "None" or "Panic"                                   *)
(*   scan      history of the scan: for every non-empty whitespace run     *)
(*             skipped and every token returned, the codepoints advanced   *)
(*             past and the running offset before and after them           *)
(*   consumed  every codepoint the lexer advanced past, in order           *)
(***************************************************************************)

Run(kind, from, to, chars, window) ==
    [kind |-> kind, from |-> from, to |-> to, chars |-> chars,
     window |-> window]

InitOthersForLexer ==
    /\ parser = [tokens |-> <<>>, current_token_idx |-> 0]
    /\ presult = [op |-> "new"]
    /\ interners = [ns \in {"identifier", "string", "path"} |-> <<>>]
    /\ handles = <<>>
    /\ resolved = [op |-> "new"]
    /\ threads = <<>>
    /\ locks = [ns \in {"identifier", "string", "path"} |-> "None"]

Init ==
    /\ \E source \in Sources \cup Scenarios : lexer = LexerNew(source)
    /\ tokens = <<>>
    /\ result = "Start"
    /\ scan = <<>>
    /\ consumed = <<>>
    /\ InitOthersForLexer

(* One call of next on a lexer that has not panicked. *)
LexNext ==
    /\ result # "Panic"
    /\ LET ws == SkipWhitespaces(lexer)
           wsChars == LoopChars(lexer, Whitespace)
           out == LexerNext(lexer)
           wsRun == IF wsChars = <<>> THEN <<>>
                    ELSE <<Run("ws", lexer.location.offset,
                               ws.lx.location.offset, wsChars, <<>>)>>
           tokRun == IF out.outcome = "Some"
                     THEN <<Run("token", ws.lx.location.offset,
                                out.lx.location.offset, out.chars,
                                <<ws.lx.current, ws.lx.next>>)>>
                     ELSE <<>>
       IN /\ lexer' = out.lx
          /\ result' = out.outcome
          /\ tokens' = IF out.outcome = "Some"
                       THEN Append(tokens, out.token) ELSE tokens
          /\ scan' = scan \o wsRun \o tokRun
          /\ consumed' = consumed \o wsChars \o out.chars
    /\ UNCHANGED <<parserVars, internerVars>>

Next == LexNext

Spec == Init /\ [][Next]_vars

(***************************************************************************)
(* Properties of the Lexer                                                 *)
(***************************************************************************)

(* Codepoints that are neither whitespace, nor the start of a punctuator    *)
(* arm, nor the start of an identifier.                                     *)
Unclassifiable(c) ==
    /\ c \notin Whitespace
    /\ c \notin IdStart
    /\ c \notin DOMAIN OneCharArms
    /\ \A w \in DOMAIN TwoCharArms : w[1] # c

(* C1: scanning any source never panics; the empty source yields no token;  *)
(* a source of n unclassifiable codepoints yields exactly n                 *)
(* Error(UnexpectedChar) tokens.                                            *)
C1_LexerTotality ==
    /\ result # "Panic"
    /\ (lexer.source = <<>>) => (tokens = <<>>)
    /\ (result = "None" /\ \A i \in DOMAIN lexer.source :
                               Unclassifiable(lexer.source[i]))
         => /\ Len(tokens) = Len(lexer.source)
            /\ \A i \in DOMAIN tokens : tokens[i].raw = Error("UnexpectedChar")

(* The source text a span covers, when the span can be sliced out. *)
SpanOk(src, span) == SliceOk(src, span.start.offset, span.end.offset)

SpanText(src, span) == Slice(src, span.start.offset, span.end.offset)

(* The index in tokens of the token that scan[i] records. *)
TokenIndex(i) == Cardinality({j \in 1..i : scan[j].kind = "token"})

(* The byte range of the i-th piece of the scan: the range skipped for a    *)
(* whitespace run, the span for a token.                                    *)
PieceFrom(i) ==
    IF scan[i].kind = "ws" THEN scan[i].from
    ELSE tokens[TokenIndex(i)].location.start.offset

PieceTo(i) ==
    IF scan[i].kind = "ws" THEN scan[i].to
    ELSE tokens[TokenIndex(i)].location.end.offset

(* C5: every token's span has start.offset <= end.offset, and of two        *)
(* consecutive tokens the earlier one ends at or before the offset where    *)
(* the later one starts.                                                    *)
C5_SpanMonotonicity ==
    /\ \A i \in DOMAIN tokens :
          tokens[i].location.start.offset <= tokens[i].location.end.offset
    /\ \A i \in DOMAIN tokens : i < Len(tokens) =>
          tokens[i].location.end.offset <= tokens[i + 1].location.start.offset

C5_Witness ==
    /\ Len(tokens) >= 3
    /\ \E i \in DOMAIN tokens : tokens[i].raw = Identifier
    /\ \E i \in DOMAIN tokens : tokens[i].raw.kind = "Punctuator"

(* C6: when the scan has reached the end of the input, the spans of the     *)
(* tokens and the whitespace runs skipped between them tile                 *)
(* [0, source.len()) in order, without gap or overlap.                      *)
C6_TotalCoverage ==
    result = "None" =>
        /\ (scan = <<>>) => (ByteLen(lexer.source) = 0)
        /\ (scan # <<>>) =>
              /\ PieceFrom(1) = 0
              /\ PieceTo(Len(scan)) = ByteLen(lexer.source)
        /\ \A i \in DOMAIN scan : PieceFrom(i) <= PieceTo(i)
        /\ \A i \in DOMAIN scan : i < Len(scan) => PieceTo(i) = PieceFrom(i + 1)

(* C7: whenever the window (current, next) is a two-codepoint punctuator of *)
(* the dispatch table, the token returned for it consumes both codepoints.  *)
C7_MaximalMunch ==
    \A i \in DOMAIN scan :
        (scan[i].kind = "token" /\ scan[i].window \in DOMAIN TwoCharArms)
            => /\ scan[i].chars = scan[i].window
               /\ tokens[TokenIndex(i)].raw =
                     Punctuator(TwoCharArms[scan[i].window].punctuator)

(* C9: the text covered by the span of an Identifier token is no keyword    *)
(* lexeme, and the text covered by the span of a Keyword(k) token is the    *)
(* lexeme of k.                                                             *)
C9_KeywordIdentifierPartition ==
    \A i \in DOMAIN tokens :
        /\ tokens[i].raw = Identifier =>
              /\ SpanOk(lexer.source, tokens[i].location)
              /\ \A kw \in DOMAIN KeywordLexeme :
                    SpanText(lexer.source, tokens[i].location) # KeywordLexeme[kw]
        /\ tokens[i].raw.kind = "Keyword" =>
              /\ SpanOk(lexer.source, tokens[i].location)
              /\ SpanText(lexer.source, tokens[i].location)
                    = KeywordLexeme[tokens[i].raw.arg]

C9_Witness ==
    /\ \E i \in DOMAIN tokens : tokens[i].raw = Keyword("KwIf")
    /\ \E i \in DOMAIN tokens : tokens[i].raw = Identifier

(* C10: an Error(UnexpectedChar) token is returned for exactly one          *)
(* codepoint, its span covers all the UTF-8 bytes of that codepoint, and    *)
(* the scan resumes right after it.                                         *)
C10_UnexpectedCharRecovery ==
    \A i \in DOMAIN scan :
        (scan[i].kind = "token"
            /\ tokens[TokenIndex(i)].raw = Error("UnexpectedChar"))
        => /\ Len(scan[i].chars) = 1
           /\ scan[i].to = scan[i].from + LenUtf8(scan[i].chars[1])
           /\ tokens[TokenIndex(i)].location.start.offset = scan[i].from
           /\ tokens[TokenIndex(i)].location.end.offset = scan[i].to

(***************************************************************************)
(* Advancing a lexer one codepoint at a time: one step is one call of      *)
(* advance, made as every caller makes it, with a current codepoint.       *)
(***************************************************************************)

InitAdvance == Init

AdvanceCall ==
    /\ ~IsEof(lexer)
    /\ lexer' = Advance(lexer)
    /\ consumed' = Append(consumed, lexer.current)
    /\ UNCHANGED <<tokens, result, scan, parserVars, internerVars>>

NextAdvance == AdvanceCall

SpecAdvance == InitAdvance /\ [][NextAdvance]_vars

RECURSIVE SumLenUtf8(_)
SumLenUtf8(cs) ==
    IF cs = <<>> THEN 0 ELSE LenUtf8(Head(cs)) + SumLenUtf8(Tail(cs))

LineFeeds(cs) == Cardinality({i \in DOMAIN cs : cs[i] = "\n"})

(* C8: an advance past codepoint c adds the UTF-8 length of c to the        *)
(* offset; past a line feed it sets column to 0 and adds 1 to line, past    *)
(* any other codepoint it adds 1 to column and keeps line.  So the offset   *)
(* is always the sum of the UTF-8 lengths of the consumed codepoints and    *)
(* line is 1 plus the number of line feeds consumed.                        *)
C8_AdvanceLocation ==
    /\ [](/\ lexer.location.offset = SumLenUtf8(consumed)
          /\ lexer.location.line = 1 + LineFeeds(consumed))
    /\ [][lexer.current # None =>
            /\ lexer'.location.offset \in
                  {lexer.location.offset + n : n \in 1..4}
            /\ lexer'.location.offset =
                  lexer.location.offset + LenUtf8(lexer.current)
            /\ IF lexer.current = "\n"
               THEN /\ lexer'.location.column = 0
                    /\ lexer'.location.line = lexer.location.line + 1
               ELSE /\ lexer'.location.column = lexer.location.column + 1
                    /\ lexer'.location.line = lexer.location.line]_vars

C8_Witness ==
    /\ lexer.location.line = 2
    /\ lexer.location.column = 1
    /\ lexer.location.offset = 5
    /\ Len(consumed) = 2

(***************************************************************************)
(* Parser: the token buffer and the cursor                                 *)
(***************************************************************************)

(* Longest token buffer. *)
MaxTokens == 3

(* Largest cursor from which consume is called. *)
MaxCursor == 4

(* Largest offset passed to get. *)
MaxOffset == 2

(* The token kinds of the buffers and of the expected kinds. *)
ParserKinds ==
    {Identifier, Punctuator("Plus"), Error("UnexpectedChar"), EndOfFile}

(* The i-th token of a buffer: two bytes wide, one byte after the token     *)
(* before it.                                                               *)
BufferSpan(i) ==
    SpanLocation(CharLocation(1, 3 * (i - 1), 3 * (i - 1)),
                 CharLocation(1, 3 * (i - 1) + 2, 3 * (i - 1) + 2))

TokenBuffers ==
    UNION {{[i \in 1..n |-> Token(kinds[i], BufferSpan(i))] :
               kinds \in [1..n -> ParserKinds]} : n \in 0..MaxTokens}

(* Parser::new_from_tokens *)
ParserNewFromTokens(toks) == [tokens |-> toks, current_token_idx |-> 0]

(* Parser::get that reads the buffer at the cursor, whatever the offset *)
GetAtCursor(p, offset) ==
    IF p.current_token_idx < Len(p.tokens)
    THEN p.tokens[p.current_token_idx + 1]
    ELSE Token(EndOfFile,
               IF p.tokens # <<>>
               THEN p.tokens[Len(p.tokens)].location
               ELSE OfFirstByte)

(* Parser::get *)
Get(p, offset) ==
    IF p.current_token_idx + offset < Len(p.tokens)
    THEN p.tokens[p.current_token_idx + offset + 1]
    ELSE Token(EndOfFile,
               IF p.tokens # <<>>
               THEN p.tokens[Len(p.tokens)].location
               ELSE OfFirstByte)

(* Parser::current *)
Current(p) == Get(p, 0)

(* Parser::next *)
PeekNext(p) == Get(p, 1)

(* parser::Error::UnexpectedToken *)
UnexpectedToken(expected, found) ==
    [error |-> "UnexpectedToken", expected |-> expected, found |-> found]

(* Parser::consume that moves the cursor before it compares the kinds *)
ConsumeAdvancesFirst(p, raw) ==
    LET current == Current(p)
        moved == [p EXCEPT !.current_token_idx = @ + 1]
    IN IF raw # current.raw
       THEN [parser |-> moved, ok |-> FALSE,
             value |-> UnexpectedToken(raw, current)]
       ELSE [parser |-> moved, ok |-> TRUE, value |-> current]

(* Parser::consume that rewinds the cursor when the kinds differ *)
ConsumeRewindsOnError(p, raw) ==
    LET current == Current(p)
    IN IF raw # current.raw
       THEN [parser |-> [p EXCEPT !.current_token_idx = 0], ok |-> FALSE,
             value |-> UnexpectedToken(raw, current)]
       ELSE [parser |-> [p EXCEPT !.current_token_idx = @ + 1],
             ok |-> TRUE, value |-> current]

(* Parser::consume: the parser afterwards and the Result returned *)
Consume(p, raw) ==
    LET current == Current(p)
    IN IF raw # current.raw
       THEN [parser |-> p, ok |-> FALSE, value |-> UnexpectedToken(raw, current)]
       ELSE [parser |-> [p EXCEPT !.current_token_idx = @ + 1],
             ok |-> TRUE, value |-> current]

InitOthersForParser ==
    /\ lexer = LexerNew(<<>>)
    /\ tokens = <<>>
    /\ result = "Start"
    /\ scan = <<>>
    /\ consumed = <<>>
    /\ interners = [ns \in {"identifier", "string", "path"} |-> <<>>]
    /\ handles = <<>>
    /\ resolved = [op |-> "new"]
    /\ threads = <<>>
    /\ locks = [ns \in {"identifier", "string", "path"} |-> "None"]

InitParser ==
    /\ \E toks \in TokenBuffers : parser = ParserNewFromTokens(toks)
    /\ presult = [op |-> "new"]
    /\ InitOthersForParser

(* presult records the last call: its name, its argument and what it        *)
(* returned.                                                                *)
ParserConsume ==
    /\ parser.current_token_idx < MaxCursor
    /\ \E raw \in ParserKinds :
          LET r == Consume(parser, raw)
          IN /\ parser' = r.parser
             /\ presult' = [op |-> "consume", arg |-> raw,
                            ok |-> r.ok, value |-> r.value]
    /\ UNCHANGED <<lexerVars, internerVars>>

ParserGet ==
    /\ \E offset \in 0..MaxOffset :
          presult' = [op |-> "get", arg |-> offset,
                      ok |-> TRUE, value |-> Get(parser, offset)]
    /\ UNCHANGED <<parser, lexerVars, internerVars>>

ParserCurrent ==
    /\ presult' = [op |-> "current", arg |-> 0,
                   ok |-> TRUE, value |-> Current(parser)]
    /\ UNCHANGED <<parser, lexerVars, internerVars>>

ParserNext ==
    /\ presult' = [op |-> "next", arg |-> 1,
                   ok |-> TRUE, value |-> PeekNext(parser)]
    /\ UNCHANGED <<parser, lexerVars, internerVars>>

NextParser == ParserConsume \/ ParserGet \/ ParserCurrent \/ ParserNext

SpecParser == InitParser /\ [][NextParser]_vars

(* The token the buffer holds at index i (from 0), if any. *)
Buffered(p, i) == p.tokens[i + 1]

(* C3: consume(expected) of a token at the cursor whose kind is expected    *)
(* moves the cursor by exactly one and returns that token; otherwise it     *)
(* returns Err(UnexpectedToken{expected, found}) with found the token at    *)
(* the cursor, and leaves the cursor and the buffer as they were.           *)
C3_Consume ==
    [][presult'.op = "consume" =>
         LET found == IF parser.current_token_idx < Len(parser.tokens)
                      THEN Buffered(parser, parser.current_token_idx)
                      ELSE Get(parser, 0)
         IN IF found.raw = presult'.arg
            THEN /\ parser'.current_token_idx = parser.current_token_idx + 1
                 /\ parser'.tokens = parser.tokens
                 /\ presult'.ok
                 /\ presult'.value = found
            ELSE /\ parser' = parser
                 /\ ~presult'.ok
                 /\ presult'.value =
                       [error |-> "UnexpectedToken",
                        expected |-> presult'.arg, found |-> found]]_vars

C3_Witness ==
    /\ presult.op = "consume"
    /\ ~presult.ok
    /\ parser.current_token_idx = 2
    /\ Len(parser.tokens) = 3

(* C4 as stated: a peek returns the buffered token at cursor+offset and     *)
(* leaves the parser alone; past the end of the buffer it returns an        *)
(* EndOfFile token whose span lies at the end position of the last          *)
(* buffered token's span, or is the start-of-file span for an empty buffer. *)
C4_PeekSpanAtEnd ==
    [][presult'.op \in {"get", "current", "next"} =>
         /\ parser' = parser
         /\ IF parser.current_token_idx + presult'.arg < Len(parser.tokens)
            THEN presult'.value =
                    Buffered(parser, parser.current_token_idx + presult'.arg)
            ELSE /\ presult'.value.raw = EndOfFile
                 /\ IF parser.tokens = <<>>
                    THEN presult'.value.location =
                            SpanLocation(CharLocation(1, 0, 0),
                                         CharLocation(1, 1, 1))
                    ELSE presult'.value.location.start =
                            parser.tokens[Len(parser.tokens)].location.end]_vars

(* C4 amended: past the end of the buffer the EndOfFile token carries the   *)
(* whole span of the last buffered token, start and end alike.              *)
C4_PeekLastSpan ==
    [][presult'.op \in {"get", "current", "next"} =>
         /\ parser' = parser
         /\ IF parser.current_token_idx + presult'.arg < Len(parser.tokens)
            THEN presult'.value =
                    Buffered(parser, parser.current_token_idx + presult'.arg)
            ELSE /\ presult'.value.raw = EndOfFile
                 /\ IF parser.tokens = <<>>
                    THEN presult'.value.location =
                            SpanLocation(CharLocation(1, 0, 0),
                                         CharLocation(1, 1, 1))
                    ELSE presult'.value.location =
                            parser.tokens[Len(parser.tokens)].location]_vars

C4_Witness ==
    /\ presult.op = "get"
    /\ presult.arg = 2
    /\ parser.current_token_idx = 1
    /\ Len(parser.tokens) = 2
    /\ presult.value.raw = EndOfFile
    /\ parser.tokens[2].raw # EndOfFile

(***************************************************************************)
(* Interner: one table per namespace behind its own lock.  A table is the  *)
(* list of the strings interned so far, in the order of their first        *)
(* interning; a symbol is made from the index of its string.               *)
(*   interners  the three tables                                           *)
(*   handles    history of the intern calls: namespace, string, handle     *)
(***************************************************************************)

(* Most intern calls in one behaviour. *)
MaxInterns == 3

Namespaces == {"identifier", "string", "path"}

(* The strings that are interned. *)
Strings == {"a", "b", "c"}

(* Option<String>: Some(str) and None *)
Some(str) == <<str>>

NoString == <<>>

(* usize::MAX, on the integers of the model *)
UsizeMax == 2147483647

(* to_usize that is off by one *)
ToUsizeOffByOne(symbol) == symbol + 1

(* try_from_usize that keeps only the lowest bit of the index *)
TryFromUsizeTruncated(index) == index % 2

(* <SymbolUsize as Symbol>::try_from_usize: Some(Self(index)) *)
TryFromUsize(index) == index

(* <SymbolUsize as Symbol>::to_usize *)
ToUsize(symbol) == symbol

(* A dummy id that is the first symbol an interner hands out *)
DummyIdZero == TryFromUsize(0)

(* DUMMY_IDENTIFIER_ID, DUMMY_STRING_ID, DUMMY_PATH_ID: usize::MAX - 1 *)
DummyId == UsizeMax - 1

(* StringInterner::resolve on a table: the string at the index of the       *)
(* symbol, None when the table has no such index.                           *)
Resolve(table, symbol) ==
    IF ToUsize(symbol) < Len(table)
    THEN Some(table[ToUsize(symbol) + 1])
    ELSE NoString

(* The index (from 0) of string str in a table that holds it. *)
IndexOf(table, str) == (CHOOSE i \in DOMAIN table : table[i] = str) - 1

(* StringInterner::get_or_intern on a table: the table afterwards and the   *)
(* symbol returned.                                                         *)
GetOrIntern(table, str) ==
    IF \E i \in DOMAIN table : table[i] = str
    THEN [table |-> table, symbol |-> TryFromUsize(IndexOf(table, str))]
    ELSE [table |-> Append(table, str), symbol |-> TryFromUsize(Len(table))]

(* An intern that uses STRING_INTERNER in every namespace *)
InternFromStringTable(tables, ns, str) ==
    LET r == GetOrIntern(tables["string"], str)
    IN [tables |-> [tables EXCEPT !["string"] = r.table], id |-> r.symbol]

(* An interning that appends the string to every table that lacks it *)
InternFromEveryTable(tables, ns, str) ==
    LET r == GetOrIntern(tables[ns], str)
    IN [tables |-> [n \in DOMAIN tables |-> GetOrIntern(tables[n], str).table],
        id |-> r.symbol]

(* IdentifierId::from, StringId::from and PathId::from: lock the table of   *)
(* the namespace, get_or_intern, wrap the symbol.                           *)
InternFrom(tables, ns, str) ==
    LET r == GetOrIntern(tables[ns], str)
    IN [tables |-> [tables EXCEPT ![ns] = r.table], id |-> r.symbol]

(* Option::<String>::from(id) and Option::<PathBuf>::from(id): lock the     *)
(* table of the namespace and resolve the symbol.                           *)
ResolveFrom(tables, ns, id) == Resolve(tables[ns], id)

InitOthersForInterner ==
    /\ lexer = LexerNew(<<>>)
    /\ tokens = <<>>
    /\ result = "Start"
    /\ scan = <<>>
    /\ consumed = <<>>
    /\ parser = ParserNewFromTokens(<<>>)
    /\ presult = [op |-> "new"]

(* lazy_static!: every table starts as StringInterner::new() *)
InitInterner ==
    /\ interners = [ns \in Namespaces |-> <<>>]
    /\ handles = <<>>
    /\ resolved = [op |-> "new"]
    /\ threads = <<>>
    /\ locks = [ns \in Namespaces |-> None]
    /\ InitOthersForInterner

Intern ==
    /\ Len(handles) < MaxInterns
    /\ \E ns \in Namespaces, str \in Strings :
          LET r == InternFrom(interners, ns, str)
          IN /\ interners' = r.tables
             /\ handles' = Append(handles, [ns |-> ns, str |-> str, id |-> r.id])
    /\ UNCHANGED <<resolved, threads, locks, lexerVars, parserVars>>

(* The ids a caller resolves: the symbols of the first indexes and the      *)
(* dummy id.                                                                *)
ResolvedIds == 0..MaxInterns \cup {DummyId}

(* resolved records the last resolve call: namespace, id, value returned.   *)
ResolveCall ==
    /\ \E ns \in Namespaces, id \in ResolvedIds :
          resolved' = [op |-> "resolve", ns |-> ns, id |-> id,
                       value |-> ResolveFrom(interners, ns, id)]
    /\ UNCHANGED <<interners, handles, threads, locks, lexerVars, parserVars>>

NextInterner == Intern \/ ResolveCall

SpecInterner == InitInterner /\ [][NextInterner]_vars

(* C2: two handles returned in the same namespace are equal if and only if  *)
(* the strings interned for them are equal.                                 *)
C2_InterningDeterminism ==
    \A i, j \in DOMAIN handles :
        handles[i].ns = handles[j].ns =>
            (handles[i].id = handles[j].id <=> handles[i].str = handles[j].str)

C2_Witness ==
    /\ Len(handles) = 3
    /\ handles[1].ns = handles[2].ns
    /\ handles[1].ns = handles[3].ns
    /\ handles[1].str = handles[3].str
    /\ handles[1].str # handles[2].str

(* The strings whose interning in namespace ns returned id. *)
ProducedBy(ns, id) ==
    {handles[i].str : i \in {j \in DOMAIN handles :
                               handles[j].ns = ns /\ handles[j].id = id}}

(* C11: resolving a handle that intern returned for string x in that        *)
(* namespace gives Some(x); resolving a handle the namespace never          *)
(* produced, the dummy handle among them, gives None.                       *)
C11_ResolveRoundTrip ==
    [][(handles' = handles /\ resolved'.op = "resolve") =>
          IF ProducedBy(resolved'.ns, resolved'.id) # {}
          THEN \A x \in ProducedBy(resolved'.ns, resolved'.id) :
                   resolved'.value = <<x>>
          ELSE resolved'.value = <<>>]_vars

C11_Witness ==
    /\ resolved.op = "resolve"
    /\ resolved.id = 1
    /\ resolved.value = <<"b">>
    /\ Len(handles) = 3

(* The table tbl begins with the table old. *)
IsPrefix(old, tbl) ==
    /\ Len(old) <= Len(tbl)
    /\ \A i \in DOMAIN old : tbl[i] = old[i]

(* C12: a handle that intern returned for string x resolves to x in every   *)
(* later state, whatever is interned afterwards in any namespace; every     *)
(* table only grows, keeping the strings it holds at their indexes.         *)
C12_HandleStability ==
    /\ [](\A i \in DOMAIN handles :
             Resolve(interners[handles[i].ns], handles[i].id)
                 = <<handles[i].str>>)
    /\ [][\A ns \in Namespaces : IsPrefix(interners[ns], interners'[ns])]_vars

C12_Witness ==
    /\ Len(handles) = 3
    /\ handles[1].ns = handles[2].ns
    /\ handles[1].str # handles[2].str
    /\ handles[3].ns # handles[1].ns
    /\ Len(interners[handles[1].ns]) = 2

(* C13: in every state the dummy handle of a namespace differs from every   *)
(* handle intern returned and resolves to no string.                        *)
C13_DummyNeverReal ==
    /\ \A i \in DOMAIN handles : handles[i].id # DummyId
    /\ \A ns \in Namespaces : ResolveFrom(interners, ns, DummyId) = <<>>

C13_Witness ==
    /\ Len(handles) = 3
    /\ \E ns \in Namespaces : Len(interners[ns]) = 3
    /\ resolved.op = "resolve"
    /\ resolved.id = DummyId

(***************************************************************************)
(* Interner calls from several threads.  A call locks the Mutex of its     *)
(* namespace, runs get_or_intern or resolve on the table, and drops the    *)
(* guard at the end of the expression.                                     *)
(*   threads  per thread: where it is in its call ("idle", "waiting" for   *)
(*            the lock, "locked"), the call and the calls it has started   *)
(*   locks    per Mutex: the thread that holds it, or None                 *)
(***************************************************************************)

(* Most interner calls in one behaviour, over all threads. *)
MaxThreadCalls == 3

Threads == {"t1", "t2", "t3"}

(* The strings the threads intern and the ids they resolve. *)
ThreadStrings == {"a", "b"}

ThreadIds == {0}

(* One Mutex shared by the three tables *)
LockOfShared(ns) == "identifier"

(* The Mutex that guards the table of a namespace: PATH_INTERNER,           *)
(* STRING_INTERNER and IDENTIFIER_INTERNER each have their own.             *)
LockOf(ns) == ns

RECURSIVE SumCalls(_)
SumCalls(ts) ==
    IF ts = {} THEN 0
    ELSE LET t == CHOOSE u \in ts : TRUE
         IN threads[t].calls + SumCalls(ts \ {t})

InitThreads ==
    /\ interners = [ns \in Namespaces |-> <<>>]
    /\ handles = <<>>
    /\ resolved = [op |-> "new"]
    /\ threads = [t \in Threads |->
                     [pc |-> "idle", op |-> None, ns |-> None, arg |-> None,
                      calls |-> 0]]
    /\ locks = [ns \in Namespaces |-> None]
    /\ InitOthersForInterner

(* A thread enters IdentifierId::from, StringId::from, PathId::from or one  *)
(* of the Option conversions and reaches lock().                            *)
ThreadCall(t) ==
    /\ threads[t].pc = "idle"
    /\ SumCalls(Threads) < MaxThreadCalls
    /\ \E ns \in Namespaces :
          \/ \E str \in ThreadStrings :
                threads' = [threads EXCEPT ![t] =
                    [pc |-> "waiting", op |-> "intern", ns |-> ns,
                     arg |-> str, calls |-> @.calls + 1]]
          \/ \E id \in ThreadIds :
                threads' = [threads EXCEPT ![t] =
                    [pc |-> "waiting", op |-> "resolve", ns |-> ns,
                     arg |-> id, calls |-> @.calls + 1]]
    /\ UNCHANGED <<interners, handles, resolved, locks, lexerVars, parserVars>>

(* Mutex::lock returns once the Mutex is free. *)
ThreadLock(t) ==
    /\ threads[t].pc = "waiting"
    /\ locks[LockOf(threads[t].ns)] = None
    /\ locks' = [locks EXCEPT ![LockOf(threads[t].ns)] = t]
    /\ threads' = [threads EXCEPT ![t].pc = "locked"]
    /\ UNCHANGED <<interners, handles, resolved, lexerVars, parserVars>>

(* get_or_intern under the lock, then the guard is dropped. *)
ThreadIntern(t) ==
    /\ threads[t].pc = "locked"
    /\ threads[t].op = "intern"
    /\ LET r == InternFrom(interners, threads[t].ns, threads[t].arg)
       IN /\ interners' = r.tables
          /\ handles' = Append(handles, [ns |-> threads[t].ns,
                                         str |-> threads[t].arg, id |-> r.id])
    /\ locks' = [locks EXCEPT ![LockOf(threads[t].ns)] = None]
    /\ threads' = [threads EXCEPT ![t].pc = "idle"]
    /\ UNCHANGED <<resolved, lexerVars, parserVars>>

(* resolve under the lock, then the guard is dropped. *)
ThreadResolve(t) ==
    /\ threads[t].pc = "locked"
    /\ threads[t].op = "resolve"
    /\ resolved' = [op |-> "resolve", ns |-> threads[t].ns,
                    id |-> threads[t].arg,
                    value |-> ResolveFrom(interners, threads[t].ns,
                                          threads[t].arg)]
    /\ locks' = [locks EXCEPT ![LockOf(threads[t].ns)] = None]
    /\ threads' = [threads EXCEPT ![t].pc = "idle"]
    /\ UNCHANGED <<interners, handles, lexerVars, parserVars>>

NextThreads ==
    \E t \in Threads :
        ThreadCall(t) \/ ThreadLock(t) \/ ThreadIntern(t) \/ ThreadResolve(t)

SpecThreads == InitThreads /\ [][NextThreads]_vars

(* C14: under any interleaving a thread holds at most one lock, and only    *)
(* while it runs its single insert or lookup; whenever a thread waits for   *)
(* a lock some thread can take a step; a waiting thread is kept waiting     *)
(* only by a call on the same namespace; and the handles returned to the    *)
(* threads in one namespace are equal exactly for equal strings.            *)
C14_ConcurrentInterning ==
    /\ \A t \in Threads :
          /\ Cardinality({l \in DOMAIN locks : locks[l] = t}) <= 1
          /\ (\E l \in DOMAIN locks : locks[l] = t) <=> threads[t].pc = "locked"
    /\ (\E t \in Threads : threads[t].pc = "waiting") =>
          ENABLED (\E u \in Threads :
                      ThreadLock(u) \/ ThreadIntern(u) \/ ThreadResolve(u))
    /\ \A t \in Threads : threads[t].pc = "waiting" =>
          \/ ENABLED ThreadLock(t)
          \/ \E u \in Threads : /\ threads[u].pc = "locked"
                                /\ threads[u].ns = threads[t].ns
    /\ \A i, j \in DOMAIN handles :
          handles[i].ns = handles[j].ns =>
              (handles[i].id = handles[j].id <=> handles[i].str = handles[j].str)

C14_Witness ==
    /\ threads["t1"].pc = "locked"
    /\ threads["t2"].pc = "waiting"
    /\ threads["t3"].pc = "waiting"
    /\ threads["t1"].ns = threads["t2"].ns
    /\ threads["t1"].ns # threads["t3"].ns
    /\ threads["t1"].op = "intern"
    /\ threads["t2"].op = "intern"

(***************************************************************************)
(* Lexical errors in the token buffer                                      *)
(***************************************************************************)

(* C15: a consume that finds a token of kind Error(k) at the cursor fails   *)
(* with Error::Lex carrying k and the token's span, not with                *)
(* UnexpectedToken.                                                         *)
C15_LexErrorSurfaces ==
    [][(presult'.op = "consume" /\ Get(parser, 0).raw.kind = "Error") =>
          /\ ~presult'.ok
          /\ presult'.value =
                [error |-> "Lex", raw |-> Get(parser, 0).raw.arg,
                 location |-> Get(parser, 0).location]]_vars

(***************************************************************************)
(* Scenarios of the Lexer                                                  *)
(***************************************************************************)

(* The kinds of the tokens returned so far. *)
Kinds == [i \in DOMAIN tokens |-> tokens[i].raw]

(* A span on line 1 from byte and column from to byte and column to. *)
Line1Span(from, to) ==
    SpanLocation(CharLocation(1, from, from), CharLocation(1, to, to))

WhileTokens ==
    <<Token(Keyword("KwWhile"), Line1Span(0, 5)),
      Token(Identifier, Line1Span(6, 10)),
      Token(Punctuator("OpenBrace"), Line1Span(11, 12)),
      Token(Keyword("KwBreak"), Line1Span(13, 18)),
      Token(Punctuator("CloseBrace"), Line1Span(19, 20)),
      Token(EndOfFile, Line1Span(20, 20))>>

(* C16: the scan of `while true { break }` does not panic and returns, in   *)
(* this order, Keyword(while), Identifier, Punctuator(OpenBrace),           *)
(* Keyword(break), Punctuator(CloseBrace), EndOfFile, whose spans together  *)
(* with the single spaces between them tile [0, 20).                        *)
C16_WhileScenario ==
    lexer.source = WhileSource =>
        /\ result # "Panic"
        /\ Len(tokens) <= Len(WhileTokens)
        /\ \A i \in DOMAIN tokens :
              /\ tokens[i].raw = WhileTokens[i].raw
              /\ tokens[i].location.start.offset
                    = WhileTokens[i].location.start.offset
              /\ tokens[i].location.end.offset
                    = WhileTokens[i].location.end.offset
        /\ result = "None" => Len(tokens) = Len(WhileTokens)

(* C17: the scan of `1 +` returns no Error token: it returns a Number for   *)
(* `1` and then Punctuator(Plus) for `+`.                                   *)
C17_OnePlusScenario ==
    lexer.source = OnePlusSource =>
        /\ \A i \in DOMAIN tokens : tokens[i].raw.kind # "Error"
        /\ Len(tokens) <= 2
        /\ \A i \in DOMAIN tokens : tokens[i].raw = <<Number, Punctuator("Plus")>>[i]
        /\ result = "None" => Len(tokens) = 2

(* C18: the scan of an opening double quote followed by abc returns exactly *)
(* one token, Error(UnterminatedStringLiteral), with a span from offset 0   *)
(* to the end of the input, and nothing after it.                           *)
C18_UnterminatedScenario ==
    lexer.source = UnterminatedSource =>
        /\ Len(tokens) <= 1
        /\ \A i \in DOMAIN tokens :
              /\ tokens[i].raw = Error("UnterminatedStringLiteral")
              /\ tokens[i].location.start.offset = 0
              /\ tokens[i].location.end.offset = ByteLen(UnterminatedSource)
        /\ result = "None" => Len(tokens) = 1

(* C19: the scan of one identifier character of 2 UTF-8 bytes returns one   *)
(* Identifier token from (line 1, column 0, offset 0) to (line 1, column 1, *)
(* offset 2).                                                               *)
C19_TwoByteIdentifier ==
    (lexer.source = <<"U+00E9">> /\ result # "Start") =>
        tokens = <<[raw |-> Identifier,
                    location |->
                        [start |-> [line |-> 1, column |-> 0, offset |-> 0],
                         end |-> [line |-> 1, column |-> 1, offset |-> 2]]]>>

C19_Witness ==
    /\ lexer.source = <<"U+00E9">>
    /\ result = "None"
    /\ Len(tokens) = 1
    /\ lexer.location = CharLocation(1, 1, 2)

(* C20: the span of every token starts at the running location before the  *)
(* token's first codepoint was consumed and ends at the running location    *)
(* after its last codepoint was consumed.                                   *)
C20_SpanFromRunningLocation ==
    \A i \in DOMAIN scan : scan[i].kind = "token" =>
        /\ tokens[TokenIndex(i)].location.start.offset = scan[i].from
        /\ tokens[TokenIndex(i)].location.end.offset = scan[i].to

(***************************************************************************)
(* The lookahead slots of the Lexer                                        *)
(***************************************************************************)

(* The number of codepoints Lexer::new reads into current and next. *)
SlotsFilledByNew(src) == IF Len(src) >= 2 THEN 2 ELSE Len(src)

(* C21: over a scan every source codepoint occupies the next slot at most   *)
(* once and the current slot at most once, and none is read again after     *)
(* the scanner moved past it: the codepoints moved past are the first       *)
(* codepoints of the source, in order, and the codepoints read into the     *)
(* slots (by new and by the iterator of advance) are no more than the       *)
(* source holds.                                                            *)
C21_NoReread ==
    /\ Len(consumed) <= Len(lexer.source)
    /\ \A i \in DOMAIN consumed :
          i <= Len(lexer.source) => consumed[i] = lexer.source[i]
    /\ SlotsFilledByNew(lexer.source) + lexer.chars <= Len(lexer.source)

(* C22: the token sequence of every source is finite.  Every call of next   *)
(* returns (a token or None), a call that returns a token has advanced the  *)
(* offset, and the offset never exceeds the length of the source, so only   *)
(* finitely many calls return a token and then a call returns None; after   *)
(* None every call returns None and leaves the Lexer as it was.             *)
C22_FiniteTokenSequence ==
    /\ [](/\ result # "Panic"
          /\ lexer.location.offset <= ByteLen(lexer.source))
    /\ [][result' = "Some" =>
             lexer'.location.offset > lexer.location.offset]_vars
    /\ [][result = "None" => (result' = "None" /\ lexer' = lexer)]_vars

(* The codepoint of src that begins at byte b, None when no codepoint       *)
(* begins there.                                                            *)
CodepointAt(src, b) ==
    IF \E i \in 1..Len(src) : ByteOffset(src, i - 1) = b
    THEN src[CHOOSE i \in 1..Len(src) : ByteOffset(src, i - 1) = b]
    ELSE None

(* C25: after Lexer::new and any number of advance calls, current is the    *)
(* codepoint that begins at byte location.offset, None exactly when the     *)
(* offset is the length of the source, next is the codepoint after it, and  *)
(* the offset never exceeds the length of the source.                       *)
C25_LookaheadInvariant ==
    LET src == lexer.source
        off == lexer.location.offset
    IN /\ off <= ByteLen(src)
       /\ lexer.current = CodepointAt(src, off)
       /\ (lexer.current = None) <=> (off = ByteLen(src))
       /\ lexer.next = IF lexer.current = None THEN None
                       ELSE CodepointAt(src, off + LenUtf8(lexer.current))

(***************************************************************************)
(* The cursor of the Parser                                                *)
(***************************************************************************)

(* C23: in every parser operation the cursor does not decrease; it changes  *)
(* only in a consume that returns Ok, and then by exactly one, so a consume *)
(* that returns Err and every peek leave it as it was.                      *)
C23_CursorMonotone ==
    [][/\ parser'.current_token_idx >= parser.current_token_idx
       /\ parser'.current_token_idx # parser.current_token_idx =>
             /\ presult'.op = "consume"
             /\ presult'.ok
             /\ parser'.current_token_idx = parser.current_token_idx + 1
       /\ parser'.tokens = parser.tokens]_vars

C23_Witness ==
    /\ presult.op = "consume"
    /\ ~presult.ok
    /\ presult.arg = Punctuator("Plus")
    /\ parser.current_token_idx = 3
    /\ Len(parser.tokens) = 3

(* C26: the cursor is at most the number of buffered tokens, also after a   *)
(* consume at or past the end of the buffer.                                *)
C26_CursorWithinBuffer ==
    parser.current_token_idx <= Len(parser.tokens)

(***************************************************************************)
(* Independence of the namespaces                                          *)
(***************************************************************************)

(* C24: an intern call in one namespace leaves the tables of the other two  *)
(* namespaces unchanged, and with them the result of every resolve and of   *)
(* every intern in those namespaces.                                        *)
C24_NamespacesIndependent ==
    [][Len(handles') > Len(handles) =>
          \A ns \in Namespaces \ {handles'[Len(handles')].ns} :
             /\ interners'[ns] = interners[ns]
             /\ \A id \in ResolvedIds :
                   ResolveFrom(interners', ns, id) =
                      ResolveFrom(interners, ns, id)
             /\ \A str \in Strings :
                   InternFrom(interners', ns, str).id =
                      InternFrom(interners, ns, str).id]_vars

C24_Witness ==
    /\ Len(handles) = 3
    /\ handles[1].ns = "identifier"
    /\ handles[2].ns = "string"
    /\ handles[3].ns = "path"
    /\ handles[3].id = 0
    /\ interners["identifier"] # <<>>
    /\ interners["string"] # <<>>

====
